---- MODULE Spec2Model ----
(***************************************************************************)
(* Model of the row-driven page renderer of src/src/render.rs:            *)
(* HeaderContext, RenderContext and SplitTemplateRenderer.                *)
(*                                                                         *)
(* The response writer is modelled by the sequence of render calls made   *)
(* on template segments (one entry per render_start / render_item /       *)
(* render_end call, with its outcome).  A segment render of the template  *)
(* engine may fail; which render calls of an operation fail is an input   *)
(* of the operation.                                                      *)
(***************************************************************************)
EXTENDS Integers, Sequences, FiniteSets, TLC

VARIABLES
    page,               \* PageContext variant: "Header", "Body", plus "Aborted" / "Closed" once consumed
    response,           \* HttpResponseBuilder: the sequence of inserted headers
    current_component,  \* RenderContext.current_component
    shell_renderer,     \* RenderContext.shell_renderer
    recursion_depth,    \* RenderContext.recursion_depth
    current_statement,  \* RenderContext.current_statement
    writer,             \* the writer: sequence of render calls, oldest first
    next_id,            \* number of SplitTemplateRenderer instances created so far
    max_depth,          \* history: highest recursion_depth reached so far
    last,               \* history: the last operation, its input, its result and the state before it
    nsteps,             \* history: number of operations performed
    scenario,           \* history: how far the run follows [shell row, component row, item rows, close]
    nfaults,            \* history: number of failed segment renders
    finished,           \* history: number of finish_query calls made on the RenderContext
    dynamic_call,       \* the handle_row call in progress on nested dynamic rows: whether it is
                        \* entering them ("down") or returning its result err ("up")
    sql_file,           \* ParsedSqlFile.statements of the file the row stream is built from
    stmt_index,         \* stream_query_results: index of the statement the for loop is at
    connection_opt,     \* stream_query_results: whether a connection has been acquired
    request,            \* RequestInfo: the names held by get_variables and post_variables
    yielded,            \* the DbItems yielded so far, each with the index of its statement
    ended,              \* whether the stream ended on an error of the try_stream block
    database_connection_retries, \* AppConfig.database_connection_retries
    retries,            \* Database::init: the retries left
    outcomes,           \* history: whether each connection attempt made so far succeeded
    init_pc,            \* Database::init: where the call is
    db_connection       \* Database.connection: the attempt whose pool was returned (0: none)

pageVars == <<page, response, current_component, shell_renderer, recursion_depth,
              current_statement, writer, next_id, max_depth, last, nsteps, scenario, nfaults,
              finished, dynamic_call>>

streamVars == <<sql_file, stmt_index, connection_opt, request, yielded, ended>>

dbVars == <<database_connection_retries, retries, outcomes, init_pc, db_connection>>

vars == <<page, response, current_component, shell_renderer, recursion_depth,
          current_statement, writer, next_id, max_depth, last, nsteps, scenario, nfaults,
          finished, dynamic_call, sql_file, stmt_index, connection_opt, request, yielded, ended,
          database_connection_retries, retries, outcomes, init_pc, db_connection>>

----------------------------------------------------------------------------
(* Bounds of the model *)

MaxSteps == 5
MaxFaults == 1
MaxFaultPos == 5
MaxDeepSteps == 1
MaxStatements == 3
MaxRetries == 6

(* Program constants *)

DEFAULT_COMPONENT == "default"
SHELL_COMPONENT == "shell"
DYNAMIC_COMPONENT == "dynamic"
MAX_RECURSION_DEPTH == 256

----------------------------------------------------------------------------
(* JSON values *)

None == "<None>"

Null == [t |-> "null"]

NoProperties == [k |-> "absent", rows |-> <<>>]

Field(name, is_str, val) == [name |-> name, is_str |-> is_str, val |-> val]

Object(component, fields, properties) ==
    [t |-> "object", component |-> component, fields |-> fields, properties |-> properties]

\* Option<&str> of a string-valued key of a JSON object
get_object_str(json, key) ==
    IF json.t # "object" THEN None
    ELSE IF key \notin DOMAIN json THEN None
    ELSE json[key]

----------------------------------------------------------------------------
(* anyhow::Result: Ok is the empty chain, an error is its chain of         *)
(* messages, outermost first.                                              *)

Ok == <<>>

with_context(res, msg) ==
    IF res.err = Ok THEN res ELSE [res EXCEPT !.err = <<msg>> \o @]

ERR_RENDER == "RenderError"
ERR_HTTP_HEADER == "The http_header component can not be used in the body of the page"
ERR_NOT_FOUND == "template not found"
ERR_MAX_RECURSION == "Maximum recursion depth exceeded in the dynamic component."
ERR_MISSING_PROPERTIES == "Missing 'properties' key."
ERR_PARSING == "parsing json properties"
ERR_PROPERTIES_STRING == "Expected properties string to parse as array or object"
ERR_PROPERTIES_TYPE == "Expected properties of type array or object"
ERR_TOP_LEVEL_DYNAMIC == "Dynamic components at the top level are not supported"
ERR_HEADER_VALUE == "http header values must be strings"
ERR_EXPECTED_OBJECT == "expected object"
CTX_DYNAMIC == "Unable to render dynamic component with properties"
CTX_SHELL == "The shell component should always exist"
CTX_OPEN == "Unable to open the rendering context"

----------------------------------------------------------------------------
(* The template store: the component names that resolve to a template.    *)

Templates == {"shell", "default", "error", "a"}

----------------------------------------------------------------------------
(* SplitTemplateRenderer *)

NoLocalVars == [some |-> FALSE, v |-> <<>>]

Some(v) == [some |-> TRUE, v |-> v]

SplitTemplateRenderer_new(name, id) ==
    [id |-> id, name |-> name, local_vars |-> NoLocalVars, ctx |-> Null, row_index |-> 0]

NoRenderer == SplitTemplateRenderer_new(None, 0)

name(r) == r.name

\* The block-local variables a segment render leaves behind: the engine's
\* block accumulates what each segment stored in it.
segment_render(segment, local_vars) == Append(local_vars, segment)

\* Whether the next segment render of the operation in progress fails.
Fails(m) == (m.n + 1) \in m.faults

Event(call, slot, r, data, row_index, vars_in, res) ==
    [call |-> call, slot |-> slot, id |-> r.id, name |-> r.name, ctx |-> r.ctx,
     data |-> data, row_index |-> row_index, vars |-> vars_in, res |-> res]

render_start(m, slot, data) ==
    LET r == [m[slot] EXCEPT !.ctx = data]
        failed == Fails(m)
        ev == Event("render_start", slot, r, data, -1, <<>>,
                    IF failed THEN "fail" ELSE "ok")
        r2 == IF failed THEN r
              ELSE [r EXCEPT !.local_vars = Some(segment_render("before_list", <<>>)),
                             !.row_index = 0]
    IN  [m |-> [m EXCEPT ![slot] = r2, !.n = @ + 1, !.writer = Append(@, ev)],
         err |-> IF failed THEN <<ERR_RENDER>> ELSE Ok]

\* faulty variant: the row index is not incremented
render_item_same_index(m, slot, data) ==
    LET r == m[slot]
        failed == Fails(m)
    IN  IF r.local_vars.some
        THEN LET taken == [r EXCEPT !.local_vars = NoLocalVars]
                 ev == Event("render_item", slot, r, data, r.row_index, r.local_vars.v,
                             IF failed THEN "fail" ELSE "ok")
                 r2 == IF failed THEN taken
                       ELSE [taken EXCEPT
                               !.local_vars = Some(segment_render("list_content", r.local_vars.v))]
             IN  [m |-> [m EXCEPT ![slot] = r2, !.n = @ + 1, !.writer = Append(@, ev)],
                  err |-> IF failed THEN <<ERR_RENDER>> ELSE Ok]
        ELSE [m |-> [m EXCEPT !.writer =
                        Append(@, Event("render_item", slot, r, data, r.row_index, <<>>, "noop"))],
              err |-> Ok]

\* faulty variant: the block-local variables of the earlier segments are not installed
render_item_fresh_locals(m, slot, data) ==
    LET r == m[slot]
        failed == Fails(m)
    IN  IF r.local_vars.some
        THEN LET taken == [r EXCEPT !.local_vars = NoLocalVars]
                 ev == Event("render_item", slot, r, data, r.row_index, <<>>,
                             IF failed THEN "fail" ELSE "ok")
                 r2 == IF failed THEN taken
                       ELSE [taken EXCEPT
                               !.local_vars = Some(segment_render("list_content", <<>>)),
                               !.row_index = @ + 1]
             IN  [m |-> [m EXCEPT ![slot] = r2, !.n = @ + 1, !.writer = Append(@, ev)],
                  err |-> IF failed THEN <<ERR_RENDER>> ELSE Ok]
        ELSE [m |-> [m EXCEPT !.writer =
                        Append(@, Event("render_item", slot, r, data, r.row_index, <<>>, "noop"))],
              err |-> Ok]

\* faulty variant: the row index is incremented even when nothing is rendered
render_item_counts_always(m, slot, data) ==
    LET r == m[slot]
        failed == Fails(m)
    IN  IF r.local_vars.some
        THEN LET taken == [r EXCEPT !.local_vars = NoLocalVars]
                 ev == Event("render_item", slot, r, data, r.row_index, r.local_vars.v,
                             IF failed THEN "fail" ELSE "ok")
                 r2 == IF failed THEN taken
                       ELSE [taken EXCEPT
                               !.local_vars = Some(segment_render("list_content", r.local_vars.v)),
                               !.row_index = @ + 1]
             IN  [m |-> [m EXCEPT ![slot] = r2, !.n = @ + 1, !.writer = Append(@, ev)],
                  err |-> IF failed THEN <<ERR_RENDER>> ELSE Ok]
        ELSE [m |-> [m EXCEPT ![slot] = [r EXCEPT !.row_index = @ + 1],
                              !.writer =
                        Append(@, Event("render_item", slot, r, data, r.row_index, <<>>, "noop"))],
              err |-> Ok]

\* faulty variant: the block-local variables are put back when list_content fails
render_item_failure_keeps_locals(m, slot, data) ==
    LET r == m[slot]
        failed == Fails(m)
    IN  IF r.local_vars.some
        THEN LET taken == [r EXCEPT !.local_vars = NoLocalVars]
                 ev == Event("render_item", slot, r, data, r.row_index, r.local_vars.v,
                             IF failed THEN "fail" ELSE "ok")
                 r2 == IF failed THEN r
                       ELSE [taken EXCEPT
                               !.local_vars = Some(segment_render("list_content", r.local_vars.v)),
                               !.row_index = @ + 1]
             IN  [m |-> [m EXCEPT ![slot] = r2, !.n = @ + 1, !.writer = Append(@, ev)],
                  err |-> IF failed THEN <<ERR_RENDER>> ELSE Ok]
        ELSE [m |-> [m EXCEPT !.writer =
                        Append(@, Event("render_item", slot, r, data, r.row_index, <<>>, "noop"))],
              err |-> Ok]

\* faulty variant: the row index is incremented before list_content is rendered
render_item_index_first(m, slot, data) ==
    LET r == m[slot]
        failed == Fails(m)
    IN  IF r.local_vars.some
        THEN LET taken == [r EXCEPT !.local_vars = NoLocalVars, !.row_index = @ + 1]
                 ev == Event("render_item", slot, taken, data, taken.row_index, r.local_vars.v,
                             IF failed THEN "fail" ELSE "ok")
                 r2 == IF failed THEN taken
                       ELSE [taken EXCEPT
                               !.local_vars = Some(segment_render("list_content", r.local_vars.v))]
             IN  [m |-> [m EXCEPT ![slot] = r2, !.n = @ + 1, !.writer = Append(@, ev)],
                  err |-> IF failed THEN <<ERR_RENDER>> ELSE Ok]
        ELSE [m |-> [m EXCEPT !.writer =
                        Append(@, Event("render_item", slot, r, data, r.row_index, <<>>, "noop"))],
              err |-> Ok]

render_item(m, slot, data) ==
    LET r == m[slot]
        failed == Fails(m)
    IN  IF r.local_vars.some
        THEN LET taken == [r EXCEPT !.local_vars = NoLocalVars]
                 ev == Event("render_item", slot, r, data, r.row_index, r.local_vars.v,
                             IF failed THEN "fail" ELSE "ok")
                 r2 == IF failed THEN taken
                       ELSE [taken EXCEPT
                               !.local_vars = Some(segment_render("list_content", r.local_vars.v)),
                               !.row_index = @ + 1]
             IN  [m |-> [m EXCEPT ![slot] = r2, !.n = @ + 1, !.writer = Append(@, ev)],
                  err |-> IF failed THEN <<ERR_RENDER>> ELSE Ok]
        ELSE [m |-> [m EXCEPT !.writer =
                        Append(@, Event("render_item", slot, r, data, r.row_index, <<>>, "noop"))],
              err |-> Ok]

\* faulty variant: the block-local variables are read and left in the renderer
render_end_keeps_locals(m, slot) ==
    LET r == m[slot]
        failed == Fails(m)
    IN  IF r.local_vars.some
        THEN LET ev == Event("render_end", slot, r, Null, -1, r.local_vars.v,
                             IF failed THEN "fail" ELSE "ok")
             IN  [m |-> [m EXCEPT !.n = @ + 1, !.writer = Append(@, ev)],
                  err |-> IF failed THEN <<ERR_RENDER>> ELSE Ok]
        ELSE [m |-> [m EXCEPT !.writer =
                        Append(@, Event("render_end", slot, r, Null, -1, <<>>, "noop"))],
              err |-> Ok]

render_end(m, slot) ==
    LET r == m[slot]
        failed == Fails(m)
    IN  IF r.local_vars.some
        THEN LET taken == [r EXCEPT !.local_vars = NoLocalVars]
                 ev == Event("render_end", slot, r, Null, -1, r.local_vars.v,
                             IF failed THEN "fail" ELSE "ok")
             IN  [m |-> [m EXCEPT ![slot] = taken, !.n = @ + 1, !.writer = Append(@, ev)],
                  err |-> IF failed THEN <<ERR_RENDER>> ELSE Ok]
        ELSE [m |-> [m EXCEPT !.writer =
                        Append(@, Event("render_end", slot, r, Null, -1, <<>>, "noop"))],
              err |-> Ok]

----------------------------------------------------------------------------
(* RenderContext *)

create_renderer(m, component) ==
    IF component \in Templates
    THEN [m |-> [m EXCEPT !.next_id = @ + 1],
          renderer |-> SplitTemplateRenderer_new(component, m.next_id + 1),
          err |-> Ok]
    ELSE [m |-> m, renderer |-> NoRenderer, err |-> <<ERR_NOT_FOUND>>]

close_component(m) == render_end(m, "current")

\* Set a new current component and return the old one
set_current_component(m, component) ==
    LET c == create_renderer(m, component)
    IN  IF c.err # Ok THEN [m |-> m, old |-> NoRenderer, err |-> c.err]
        ELSE [m |-> [c.m EXCEPT !.current = c.renderer], old |-> m.current, err |-> Ok]

\* faulty variant: the current component is not closed before it is replaced
open_component_with_data_unclosed(m, component, data) ==
    LET set == set_current_component(m, component)
        started == render_start(set.m, "current", data)
    IN  IF set.err # Ok THEN [m |-> set.m, old |-> NoRenderer, err |-> set.err]
        ELSE IF started.err # Ok THEN [m |-> started.m, old |-> NoRenderer, err |-> started.err]
        ELSE [m |-> started.m, old |-> set.old, err |-> Ok]

\* faulty variant: the new component is started without the data
open_component_with_data_null(m, component, data) ==
    LET closed == close_component(m)
        set == set_current_component(closed.m, component)
        started == render_start(set.m, "current", Null)
    IN  IF closed.err # Ok THEN [m |-> closed.m, old |-> NoRenderer, err |-> closed.err]
        ELSE IF set.err # Ok THEN [m |-> set.m, old |-> NoRenderer, err |-> set.err]
        ELSE IF started.err # Ok THEN [m |-> started.m, old |-> NoRenderer, err |-> started.err]
        ELSE [m |-> started.m, old |-> set.old, err |-> Ok]

open_component_with_data(m, component, data) ==
    LET closed == close_component(m)
        set == set_current_component(closed.m, component)
        started == render_start(set.m, "current", data)
    IN  IF closed.err # Ok THEN [m |-> closed.m, old |-> NoRenderer, err |-> closed.err]
        ELSE IF set.err # Ok THEN [m |-> set.m, old |-> NoRenderer, err |-> set.err]
        ELSE IF started.err # Ok THEN [m |-> started.m, old |-> NoRenderer, err |-> started.err]
        ELSE [m |-> started.m, old |-> set.old, err |-> Ok]

open_component(m, component) == open_component_with_data(m, component, Null)

\* faulty variant: the error of the component's render_item is returned only after
\* the shell's render_item
render_current_template_with_data_late(m, data) ==
    LET item == render_item(m, "current", data)
        shell == render_item(item.m, "shell", Null)
    IN  IF item.err # Ok THEN [m |-> shell.m, err |-> item.err] ELSE shell

render_current_template_with_data(m, data) ==
    LET item == render_item(m, "current", data)
    IN  IF item.err # Ok THEN item
        ELSE render_item(item.m, "shell", Null)

extract_dynamic_properties(data) ==
    IF data.t # "object" \/ data.properties.k = "absent"
    THEN [rows |-> <<>>, err |-> <<ERR_MISSING_PROPERTIES>>]
    ELSE LET p == data.properties
         IN  CASE p.k = "string" ->
                    CASE p.parsed = "array" -> [rows |-> p.rows, err |-> Ok]
                      [] p.parsed = "object" -> [rows |-> <<p.rows[1]>>, err |-> Ok]
                      [] p.parsed = "invalid" -> [rows |-> <<>>, err |-> <<ERR_PARSING>>]
                      [] OTHER -> [rows |-> <<>>, err |-> <<ERR_PROPERTIES_STRING>>]
               [] p.k = "object" -> [rows |-> <<p.rows[1]>>, err |-> Ok]
               [] p.k = "array" -> [rows |-> p.rows, err |-> Ok]
               [] OTHER -> [rows |-> <<>>, err |-> <<ERR_PROPERTIES_TYPE>>]

RECURSIVE handle_row(_, _)
RECURSIVE render_dynamic_rows(_, _, _)

RECURSIVE render_dynamic_rows_all(_, _, _)

\* faulty variant: the rows after a failed one are handled too
render_dynamic_rows_all(m, rows, i) ==
    IF i > Len(rows) THEN [m |-> m, err |-> Ok]
    ELSE LET deeper == [m EXCEPT !.recursion_depth = @ + 1,
                                 !.max_depth = IF m.recursion_depth + 1 > @
                                               THEN m.recursion_depth + 1 ELSE @]
             res == handle_row(deeper, rows[i])
             back == [res.m EXCEPT !.recursion_depth = @ - 1]
             rest == render_dynamic_rows_all(back, rows, i + 1)
         IN  IF res.err # Ok THEN [m |-> rest.m, err |-> res.err] ELSE rest

RECURSIVE render_dynamic_rows_undecremented(_, _, _)

\* faulty variant: the error of a row is returned before the depth is decremented
render_dynamic_rows_undecremented(m, rows, i) ==
    IF i > Len(rows) THEN [m |-> m, err |-> Ok]
    ELSE LET deeper == [m EXCEPT !.recursion_depth = @ + 1,
                                 !.max_depth = IF m.recursion_depth + 1 > @
                                               THEN m.recursion_depth + 1 ELSE @]
             res == handle_row(deeper, rows[i])
             back == [res.m EXCEPT !.recursion_depth = @ - 1]
         IN  IF res.err # Ok THEN [m |-> res.m, err |-> res.err]
             ELSE render_dynamic_rows_undecremented(back, rows, i + 1)

\* the for loop of render_dynamic, from the i-th synthetic row on
render_dynamic_rows(m, rows, i) ==
    IF i > Len(rows) THEN [m |-> m, err |-> Ok]
    ELSE LET deeper == [m EXCEPT !.recursion_depth = @ + 1,
                                 !.max_depth = IF m.recursion_depth + 1 > @
                                               THEN m.recursion_depth + 1 ELSE @]
             res == handle_row(deeper, rows[i])
             back == [res.m EXCEPT !.recursion_depth = @ - 1]
         IN  IF res.err # Ok THEN [m |-> back, err |-> res.err]
             ELSE render_dynamic_rows(back, rows, i + 1)

render_dynamic(m, data) ==
    IF ~(m.recursion_depth <= MAX_RECURSION_DEPTH)
    THEN [m |-> m, err |-> <<ERR_MAX_RECURSION>>]
    ELSE LET props == extract_dynamic_properties(data)
         IN  IF props.err # Ok THEN [m |-> m, err |-> props.err]
             ELSE render_dynamic_rows(m, props.rows, 1)

\* faulty variant: a row naming the current component continues it
handle_row_same_continues(m, data) ==
    LET new_component == get_object_str(data, "component")
    IN  CASE new_component = DYNAMIC_COMPONENT ->
                with_context(render_dynamic(m, data), CTX_DYNAMIC)
          [] new_component = "http_header" ->
                [m |-> m, err |-> <<ERR_HTTP_HEADER>>]
          [] new_component \notin {None, DYNAMIC_COMPONENT, "http_header", name(m.current)} ->
                LET opened == open_component_with_data(m, new_component, data)
                IN  [m |-> opened.m, err |-> opened.err]
          [] OTHER -> render_current_template_with_data(m, data)

\* faulty variant: http_header is handled as the name of a component
handle_row_header_as_component(m, data) ==
    LET new_component == get_object_str(data, "component")
    IN  CASE new_component = DYNAMIC_COMPONENT ->
                with_context(render_dynamic(m, data), CTX_DYNAMIC)
          [] new_component \notin {None, DYNAMIC_COMPONENT} ->
                LET opened == open_component_with_data(m, new_component, data)
                IN  [m |-> opened.m, err |-> opened.err]
          [] OTHER -> render_current_template_with_data(m, data)

handle_row(m, data) ==
    LET new_component == get_object_str(data, "component")
    IN  CASE new_component = DYNAMIC_COMPONENT ->
                with_context(render_dynamic(m, data), CTX_DYNAMIC)
          [] new_component = "http_header" ->
                [m |-> m, err |-> <<ERR_HTTP_HEADER>>]
          [] new_component \notin {None, DYNAMIC_COMPONENT, "http_header"} ->
                LET opened == open_component_with_data(m, new_component, data)
                IN  [m |-> opened.m, err |-> opened.err]
          [] OTHER -> render_current_template_with_data(m, data)

\* faulty variant: the statement is not counted
finish_query_uncounted(m) == [m |-> m, err |-> Ok]

finish_query(m) ==
    [m |-> [m EXCEPT !.current_statement = @ + 1], err |-> Ok]

ErrorPayload(m, error) ==
    [t |-> "object", query_number |-> m.current_statement,
     description |-> Head(error), backtrace |-> Tail(error)]

\* faulty variant: the saved component is not restored
handle_error_not_restored(m, error) ==
    LET closed == close_component(m)
        opened == open_component(closed.m, "error")
        item == render_current_template_with_data(opened.m, ErrorPayload(opened.m, error))
        closed2 == close_component(item.m)
    IN  IF closed.err # Ok THEN [m |-> closed.m, err |-> closed.err]
        ELSE IF opened.err # Ok THEN [m |-> opened.m, err |-> opened.err]
        ELSE IF item.err # Ok THEN [m |-> item.m, err |-> item.err]
        ELSE closed2

handle_error(m, error) ==
    LET closed == close_component(m)
        opened == open_component(closed.m, "error")
        item == render_current_template_with_data(opened.m, ErrorPayload(opened.m, error))
        closed2 == close_component(item.m)
    IN  IF closed.err # Ok THEN [m |-> closed.m, err |-> closed.err]
        ELSE IF opened.err # Ok THEN [m |-> opened.m, err |-> opened.err]
        ELSE IF item.err # Ok THEN [m |-> item.m, err |-> item.err]
        ELSE IF closed2.err # Ok THEN [m |-> closed2.m, err |-> closed2.err]
        ELSE [m |-> [closed2.m EXCEPT !.current = opened.old], err |-> Ok]

handle_result(m, result) ==
    IF result # Ok THEN handle_error(m, result) ELSE [m |-> m, err |-> Ok]

\* faulty variant: the error is logged and not rendered
handle_result_and_log_only(m, result) == [m |-> m, err |-> Ok]

\* the error of handle_result is logged, nothing is returned
handle_result_and_log(m, result) ==
    [m |-> handle_result(m, result).m, err |-> Ok]

close(m) ==
    LET res1 == render_end(m, "current")
        m1 == handle_result_and_log(res1.m,
                  IF res1.err = Ok THEN Ok
                  ELSE <<"Unable to render the component closing">>).m
        res2 == render_end(m1, "shell")
        m2 == handle_result_and_log(res2.m,
                  IF res2.err = Ok THEN Ok
                  ELSE <<"Unable to render the shell closing">>).m
    IN  [m |-> m2, err |-> Ok]

----------------------------------------------------------------------------
(* RenderContext::new and HeaderContext *)

RECURSIVE top_level_dynamic(_, _, _)

\* the for loop over the sub-rows of a top-level dynamic row: st is
\* [shell_properties, initial_component]
top_level_dynamic(props, i, st) ==
    IF i > Len(props) THEN [st |-> st, err |-> Ok]
    ELSE IF get_object_str(props[i], "component") \in {None, SHELL_COMPONENT}
         THEN top_level_dynamic(props, i + 1,
                  [shell_properties |-> props[i], initial_component |-> None])
         ELSE [st |-> st, err |-> <<ERR_TOP_LEVEL_DYNAMIC>>]

\* The shell properties and the name of the first component, from the initial row
initial_match(initial_row) ==
    LET initial_component == get_object_str(initial_row, "component")
        dflt == [shell_properties |-> Null, initial_component |-> initial_component]
    IN  CASE initial_component = SHELL_COMPONENT ->
                [st |-> [shell_properties |-> initial_row, initial_component |-> None],
                 err |-> Ok]
          [] initial_component = DYNAMIC_COMPONENT ->
                LET dynamic_properties == extract_dynamic_properties(initial_row)
                IN  IF dynamic_properties.err # Ok
                    THEN [st |-> dflt, err |-> dynamic_properties.err]
                    ELSE top_level_dynamic(dynamic_properties.rows, 1, dflt)
          [] OTHER -> [st |-> dflt, err |-> Ok]

RenderContext_new(m, initial_row) ==
    LET shell == create_renderer(m, SHELL_COMPONENT)
        matched == initial_match(initial_row)
        m1 == [shell.m EXCEPT !.shell = shell.renderer]
        started == render_start(m1, "shell", matched.st.shell_properties)
        current_component_name ==
            IF matched.st.initial_component = None THEN DEFAULT_COMPONENT
            ELSE matched.st.initial_component
        cur == create_renderer(started.m, current_component_name)
    IN  IF shell.err # Ok THEN [m |-> m, err |-> <<CTX_SHELL>> \o shell.err]
        ELSE IF matched.err # Ok THEN [m |-> m, err |-> matched.err]
        ELSE IF started.err # Ok THEN [m |-> [m EXCEPT !.writer = started.m.writer,
                                                        !.n = started.m.n],
                                       err |-> started.err]
        ELSE IF cur.err # Ok THEN [m |-> [m EXCEPT !.writer = started.m.writer,
                                                    !.n = started.m.n],
                                   err |-> <<CTX_OPEN>> \o cur.err]
        ELSE [m |-> [cur.m EXCEPT !.current = cur.renderer,
                                  !.recursion_depth = 0,
                                  !.current_statement = 1],
              err |-> Ok]

RECURSIVE add_http_header_lenient(_, _, _)

\* faulty variant: a field that is not a string is skipped
add_http_header_lenient(resp, data, i) ==
    IF data.t # "object" THEN [response |-> resp, err |-> <<ERR_EXPECTED_OBJECT>>]
    ELSE IF i > Len(data.fields) THEN [response |-> resp, err |-> Ok]
    ELSE IF ~data.fields[i].is_str
         THEN add_http_header_lenient(resp, data, i + 1)
         ELSE add_http_header_lenient(
                  Append(resp, <<data.fields[i].name, data.fields[i].val>>), data, i + 1)

RECURSIVE add_http_header(_, _, _)

\* the for loop of add_http_header over the fields of the row, from the i-th on
add_http_header(resp, data, i) ==
    IF data.t # "object" THEN [response |-> resp, err |-> <<ERR_EXPECTED_OBJECT>>]
    ELSE IF i > Len(data.fields) THEN [response |-> resp, err |-> Ok]
    ELSE IF ~data.fields[i].is_str
         THEN [response |-> resp, err |-> <<ERR_HEADER_VALUE>>]
         ELSE add_http_header(Append(resp, <<data.fields[i].name, data.fields[i].val>>),
                              data, i + 1)

start_body(m, data) == RenderContext_new(m, data)

\* HeaderContext::handle_row: the next page context, or the error
HeaderContext_handle_row(m, resp, data) ==
    IF get_object_str(data, "component") = "http_header"
    THEN LET added == add_http_header(resp, data, 1)
         IN  [page |-> IF added.err = Ok THEN "Header" ELSE "Aborted",
              response |-> added.response, m |-> m, err |-> added.err]
    ELSE LET body == start_body(m, data)
         IN  [page |-> IF body.err = Ok THEN "Body" ELSE "Aborted",
              response |-> resp, m |-> body.m, err |-> body.err]

----------------------------------------------------------------------------
(* The rows fed to the page *)

ShellRow == Object("shell", <<Field("title", TRUE, "T")>>, NoProperties)
ComponentRow == Object("a", <<Field("items", FALSE, 3)>>, NoProperties)
ItemRow == Object(None, <<Field("x", FALSE, 1)>>, NoProperties)
HeaderRow == Object("http_header", <<Field("X-Test", TRUE, "v")>>, NoProperties)
BadHeaderRow == Object("http_header",
                       <<Field("X-A", TRUE, "v"), Field("X-N", FALSE, 1)>>, NoProperties)
MissingRow == Object("missing", <<>>, NoProperties)
Dynamic(k, parsed, rows) ==
    Object(DYNAMIC_COMPONENT, <<>>, [k |-> k, parsed |-> parsed, rows |-> rows])
DynamicRow == Dynamic("string", "array", <<Object("a", <<>>, NoProperties), ItemRow>>)
DynamicHeaderRow == Dynamic("array", "", <<ItemRow, HeaderRow>>)
DynamicShellRow == Dynamic("object", "", <<ShellRow>>)
DynamicMissingRow == Dynamic("array", "", <<ItemRow, MissingRow, ItemRow>>)
DynamicTwoRow == Dynamic("array", "", <<ShellRow, ItemRow>>)
DynamicEmptyRow == Dynamic("array", "", <<>>)
DynamicNestedRow == Dynamic("array", "", <<ItemRow, DynamicMissingRow, ItemRow>>)
\* dynamic rows whose properties have no usable shape: no properties key, a
\* string that is no JSON, a string that parses as a number, a number
DynamicNoPropertiesRow == Object(DYNAMIC_COMPONENT, <<>>, NoProperties)
DynamicInvalidRow == Dynamic("string", "invalid", <<>>)
DynamicScalarRow == Dynamic("string", "number", <<>>)
DynamicNumberRow == Dynamic("number", "", <<>>)

BadShapeRows == {DynamicNoPropertiesRow, DynamicInvalidRow, DynamicScalarRow, DynamicNumberRow}

Rows == <<ComponentRow, ItemRow, ShellRow, HeaderRow, BadHeaderRow, MissingRow,
          DynamicRow, DynamicHeaderRow, DynamicShellRow, DynamicMissingRow, DynamicTwoRow,
          DynamicEmptyRow, DynamicNestedRow, DynamicNoPropertiesRow, DynamicInvalidRow,
          DynamicScalarRow, DynamicNumberRow>>

\* every row can start the body; the rows that differ from another one only
\* in the Header state, or only as the row inside a dynamic row, are fed
\* there only
HeaderRows == DOMAIN Rows
BodyRows == {i \in DOMAIN Rows :
                Rows[i] \notin ({BadHeaderRow, DynamicTwoRow, DynamicEmptyRow, DynamicNestedRow}
                                \cup BadShapeRows)}

StreamError == <<"database error", "cause">>

FaultSets == {F \in SUBSET (1..MaxFaultPos) : Cardinality(F) <= MaxFaults - nfaults}

----------------------------------------------------------------------------
(* The state machine *)

Machine(faults) ==
    [current |-> current_component, shell |-> shell_renderer,
     recursion_depth |-> recursion_depth, current_statement |-> current_statement,
     writer |-> writer, next_id |-> next_id, max_depth |-> max_depth,
     faults |-> faults, n |-> 0]

Pre ==
    [page |-> page, response |-> response, current |-> current_component,
     shell |-> shell_renderer, recursion_depth |-> recursion_depth,
     current_statement |-> current_statement, len |-> Len(writer)]

\* The run [a shell row in the Header state, a row naming a component, item
\* rows, close] without failing render: the place of the run in it, "off"
\* once the run has left it.
ScenarioNext(op, row, failures) ==
    CASE failures > 0 -> "off"
      [] scenario = "start" /\ op = "header_handle_row" /\ Rows[row] = ShellRow -> "shell"
      [] scenario = "shell" /\ op = "handle_row" /\ Rows[row] = ComponentRow -> "items"
      [] scenario = "items" /\ op = "handle_row" /\ Rows[row] = ItemRow -> "items"
      [] scenario = "items" /\ op = "close" -> "closed"
      [] OTHER -> "off"

\* the state after an operation on the input (row, arg) that returned res
\* ([m, err]) under the faults F
Step(op, row, arg, F, res, next_page, next_response) ==
    /\ nsteps < MaxSteps
    /\ F \subseteq 1..res.m.n
    /\ page' = next_page
    /\ response' = next_response
    /\ current_component' = res.m.current
    /\ shell_renderer' = res.m.shell
    /\ recursion_depth' = res.m.recursion_depth
    /\ current_statement' = res.m.current_statement
    /\ writer' = res.m.writer
    /\ next_id' = res.m.next_id
    /\ max_depth' = res.m.max_depth
    /\ last' = [op |-> op, row |-> row, arg |-> arg, err |-> res.err, pre |-> Pre]
    /\ nsteps' = nsteps + 1
    /\ scenario' = ScenarioNext(op, row, Cardinality(F))
    /\ nfaults' = nfaults + Cardinality(F)
    /\ finished' = IF op = "finish_query" THEN finished + 1 ELSE finished
    /\ dynamic_call' = IF op = "handle_inner_row" THEN [pc |-> "up", err |-> res.err]
                       ELSE [pc |-> "idle", err |-> Ok]
    /\ UNCHANGED streamVars
    /\ UNCHANGED dbVars

\* no row stream has been built
NoStream ==
    /\ sql_file = <<>>
    /\ stmt_index = 1
    /\ connection_opt = FALSE
    /\ request = [get_variables |-> {}, post_variables |-> {}]
    /\ yielded = <<>>
    /\ ended = FALSE

\* no database is being initialised
NoDatabase ==
    /\ database_connection_retries = 0
    /\ retries = 0
    /\ outcomes = <<>>
    /\ init_pc = "idle"
    /\ db_connection = 0

\* the page context of a new request
PageInit ==
    /\ page = "Header"
    /\ response = <<>>
    /\ current_component = NoRenderer
    /\ shell_renderer = NoRenderer
    /\ recursion_depth = 0
    /\ current_statement = 0
    /\ writer = <<>>
    /\ next_id = 0
    /\ max_depth = 0
    /\ last = [op |-> "new", row |-> 0, arg |-> Ok, err |-> Ok, pre |-> Pre]
    /\ nsteps = 0
    /\ scenario = "start"
    /\ nfaults = 0
    /\ finished = 0
    /\ dynamic_call = [pc |-> "idle", err |-> Ok]

Init == PageInit /\ NoStream /\ NoDatabase

\* a row arrives while the page is in the Header state
HeaderHandleRow ==
    /\ page = "Header"
    /\ \E i \in HeaderRows, F \in FaultSets :
          LET res == HeaderContext_handle_row(Machine(F), response, Rows[i])
          IN  Step("header_handle_row", i, Ok, F, res, res.page, res.response)

\* a row arrives while the page is in the Body state
HandleRow ==
    /\ page = "Body"
    /\ \E i \in BodyRows, F \in FaultSets :
          Step("handle_row", i, Ok, F, handle_row(Machine(F), Rows[i]), page, response)

\* the row stream yields an error
HandleError ==
    /\ page = "Body"
    /\ \E F \in FaultSets :
          Step("handle_error", 0, StreamError, F, handle_error(Machine(F), StreamError), page, response)

\* the result of the previous operation is passed to handle_result_and_log
HandleResultAndLog ==
    /\ page = "Body"
    /\ last.op \in {"handle_row", "handle_error", "finish_query"}
    /\ \E F \in FaultSets :
          Step("handle_result_and_log", 0, last.err, F,
               handle_result_and_log(Machine(F), last.err), page, response)

\* the row stream signals the end of a statement
FinishQuery ==
    /\ page = "Body"
    /\ Step("finish_query", 0, Ok, {}, finish_query(Machine({})), page, response)

\* the row stream is exhausted
Close ==
    /\ page = "Body"
    /\ \E F \in FaultSets :
          Step("close", 0, Ok, F, close(Machine(F)), "Closed", response)

Next ==
    \/ HeaderHandleRow
    \/ HandleRow
    \/ HandleError
    \/ HandleResultAndLog
    \/ FinishQuery
    \/ Close

Spec == Init /\ [][Next]_vars

----------------------------------------------------------------------------
(* Deeply nested dynamic rows: handle_row of a dynamic row that holds one  *)
(* row, itself a dynamic row that holds one row, and so on.  The call is   *)
(* followed level by level: recursion_depth is its value while the call   *)
(* is in progress.                                                         *)

\* the rows at the inner end of the nesting, and the depths they are met at
InnerRows == {i \in DOMAIN Rows :
                 Rows[i] \in ({ComponentRow, HeaderRow, DynamicRow, DynamicEmptyRow,
                               DynamicNestedRow} \cup BadShapeRows)}

InnerDepths == {1, MAX_RECURSION_DEPTH, MAX_RECURSION_DEPTH + 1, MAX_RECURSION_DEPTH + 2}

\* handle_row is called on a dynamic row: render_dynamic checks the depth and
\* enters its loop, where it is about to call handle_row on the row inside
EnterDynamic ==
    /\ page = "Body"
    /\ \/ dynamic_call.pc = "down"
       \/ recursion_depth = 0 /\ nsteps <= MaxDeepSteps
    /\ IF recursion_depth <= MAX_RECURSION_DEPTH
       THEN /\ recursion_depth' = recursion_depth + 1
            /\ max_depth' = IF recursion_depth + 1 > max_depth
                            THEN recursion_depth + 1 ELSE max_depth
            /\ dynamic_call' = [pc |-> "down", err |-> Ok]
       ELSE /\ dynamic_call' = [pc |-> "up", err |-> <<CTX_DYNAMIC, ERR_MAX_RECURSION>>]
            /\ UNCHANGED <<recursion_depth, max_depth>>
    /\ UNCHANGED <<page, response, current_component, shell_renderer, current_statement,
                   writer, next_id, last, nsteps, scenario, nfaults, finished>>
    /\ UNCHANGED streamVars
    /\ UNCHANGED dbVars

\* the innermost row, which is no dynamic row, is handled
HandleInnerRow ==
    /\ page = "Body"
    /\ dynamic_call.pc = "down"
    /\ recursion_depth \in InnerDepths
    /\ nsteps <= MaxDeepSteps
    /\ \E i \in InnerRows, F \in FaultSets :
          Step("handle_inner_row", i, Ok, F, handle_row(Machine(F), Rows[i]), page, response)

\* handle_row returned to the loop of render_dynamic, which returns its
\* result to the handle_row that called it
LeaveDynamic ==
    /\ page = "Body"
    /\ dynamic_call.pc = "up"
    /\ recursion_depth > 0
    /\ recursion_depth' = recursion_depth - 1
    /\ dynamic_call' = [pc |-> "up",
                        err |-> IF dynamic_call.err = Ok THEN Ok
                                ELSE <<CTX_DYNAMIC>> \o dynamic_call.err]
    /\ UNCHANGED <<page, response, current_component, shell_renderer, current_statement,
                   writer, next_id, max_depth, last, nsteps, scenario, nfaults, finished>>
    /\ UNCHANGED streamVars
    /\ UNCHANGED dbVars

\* the result of the call is passed to handle_result_and_log
HandleDeepResult ==
    /\ page = "Body"
    /\ dynamic_call.pc = "up"
    /\ recursion_depth = 0
    /\ \E F \in FaultSets :
          Step("handle_result_and_log", 0, dynamic_call.err, F,
               handle_result_and_log(Machine(F), dynamic_call.err), page, response)

\* the row stream is exhausted after the call
DeepClose ==
    /\ dynamic_call.pc # "down"
    /\ recursion_depth = 0
    /\ Close

DeepNext ==
    \/ HeaderHandleRow
    \/ EnterDynamic
    \/ HandleInnerRow
    \/ LeaveDynamic
    \/ HandleDeepResult
    \/ DeepClose

DeepSpec == Init /\ [][DeepNext]_vars

----------------------------------------------------------------------------
(* A SplitTemplateRenderer on its own, its three operations called in any  *)
(* order.                                                                  *)

\* the data given to render_start and render_item: null, or a row
Data(i) == IF i = 0 THEN Null ELSE Rows[i]

DataRows == {0} \cup {i \in DOMAIN Rows : Rows[i] \in {ComponentRow, ItemRow}}

RendererInit ==
    /\ page = None
    /\ response = <<>>
    /\ current_component = SplitTemplateRenderer_new("a", 1)
    /\ shell_renderer = NoRenderer
    /\ recursion_depth = 0
    /\ current_statement = 0
    /\ writer = <<>>
    /\ next_id = 1
    /\ max_depth = 0
    /\ last = [op |-> "new", row |-> 0, arg |-> Ok, err |-> Ok, pre |-> Pre]
    /\ nsteps = 0
    /\ scenario = "off"
    /\ nfaults = 0
    /\ finished = 0
    /\ dynamic_call = [pc |-> "idle", err |-> Ok]
    /\ NoStream
    /\ NoDatabase

RenderStart ==
    \E i \in DataRows, F \in FaultSets :
       Step("render_start", i, Ok, F, render_start(Machine(F), "current", Data(i)),
            page, response)

RenderItem ==
    \E i \in DataRows, F \in FaultSets :
       Step("render_item", i, Ok, F, render_item(Machine(F), "current", Data(i)),
            page, response)

RenderEnd ==
    \E F \in FaultSets :
       Step("render_end", 0, Ok, F, render_end(Machine(F), "current"), page, response)

RendererNext ==
    \/ RenderStart
    \/ RenderItem
    \/ RenderEnd

RendererSpec == RendererInit /\ [][RendererNext]_vars

----------------------------------------------------------------------------
(* The row stream of src/src/webserver/database/mod.rs:                    *)
(* stream_query_results over the statements of a parsed SQL file.  What    *)
(* the database answers to a statement is part of the statement here.      *)

ERR_BIND == "unable to bind the parameters of the statement"
ERR_ACQUIRE == "Unable to acquire a database connection to execute the SQL file."
ERR_FETCH == "database error"
ERR_SET_VARIABLE == "Only GET and POST variables can be set"
ERR_PARSE == "sql parse error"
ERR_PREPARATION == "An error occurred during the preparation phase of the SQL"

\* what fetch_many yields for a statement: rows (Right), the result of a
\* finished query (Left), an error (Err)
FetchResults ==
    { <<"Left">>, <<"Right", "Left">>, <<"Right", "Err">>, <<"Err", "Right", "Left">> }

Statements ==
    {[kind |-> "Statement", bind |-> TRUE, results |-> r] : r \in FetchResults}
    \cup {[kind |-> "Statement", bind |-> FALSE, results |-> <<>>]}
    \cup {[kind |-> "SetVariable", bind |-> TRUE, row |-> "Some", variable |-> "Get"],
          [kind |-> "SetVariable", bind |-> TRUE, row |-> "None", variable |-> "Post"],
          [kind |-> "SetVariable", bind |-> TRUE, row |-> "Err", variable |-> "Get"],
          [kind |-> "SetVariable", bind |-> TRUE, row |-> "Some", variable |-> "Cookie"]}
    \cup {[kind |-> "StaticSimpleSelect"], [kind |-> "Error"]}

Files == UNION {[1..n -> Statements] : n \in 0..MaxStatements}

DbItem(item, err) == [item |-> item, statement |-> stmt_index, err |-> err]

parse_single_sql_result(res) ==
    CASE res = "Right" -> DbItem("Row", Ok)
      [] res = "Left" -> DbItem("FinishedQuery", Ok)
      [] OTHER -> DbItem("Error", <<ERR_FETCH>>)

\* the while loop over the results of fetch_many, from the i-th on
RECURSIVE fetch_many_loop(_, _)
fetch_many_loop(results, i) ==
    IF i > Len(results) THEN <<>>
    ELSE IF results[i] = "Err" THEN <<parse_single_sql_result(results[i])>>
    ELSE <<parse_single_sql_result(results[i])>> \o fetch_many_loop(results, i + 1)

take_connection(conn, acquired) ==
    IF conn THEN [conn |-> TRUE, err |-> Ok]
    ELSE IF acquired THEN [conn |-> TRUE, err |-> Ok]
    ELSE [conn |-> FALSE, err |-> <<ERR_ACQUIRE>>]

vars_and_name(variable) ==
    CASE variable \in {"Get", "GetOrPost"} -> [vars |-> "get_variables", err |-> Ok]
      [] variable = "Post" -> [vars |-> "post_variables", err |-> Ok]
      [] OTHER -> [vars |-> None, err |-> <<ERR_SET_VARIABLE>>]

clone_anyhow_err(err) == err \o <<ERR_PREPARATION>>

StreamInit ==
    /\ PageInit
    /\ sql_file \in Files
    /\ stmt_index = 1
    /\ connection_opt = FALSE
    /\ request = [get_variables |-> {}, post_variables |-> {}]
    /\ yielded = <<>>
    /\ ended = FALSE
    /\ NoDatabase

\* the for loop is at a statement
Running == ~ended /\ stmt_index <= Len(sql_file)

\* faulty variant: the error is yielded and the for loop goes on
StreamFails_continues(err, conn) ==
    /\ yielded' = Append(yielded, DbItem("Error", err))
    /\ ended' = FALSE
    /\ connection_opt' = conn
    /\ stmt_index' = stmt_index + 1
    /\ UNCHANGED request

\* an error leaves the try_stream block: it is yielded and the stream ends
StreamFails(err, conn) ==
    /\ yielded' = Append(yielded, DbItem("Error", err))
    /\ ended' = TRUE
    /\ connection_opt' = conn
    /\ UNCHANGED <<stmt_index, request>>

ExecuteStatement ==
    /\ Running
    /\ sql_file[stmt_index].kind = "Statement"
    /\ \E acquired \in BOOLEAN :
          LET stmt == sql_file[stmt_index]
              connection == take_connection(connection_opt, acquired)
          IN  IF ~stmt.bind THEN StreamFails(<<ERR_BIND>>, connection_opt)
              ELSE IF connection.err # Ok THEN StreamFails(connection.err, connection.conn)
              ELSE /\ connection_opt' = connection.conn
                   /\ yielded' = yielded \o fetch_many_loop(stmt.results, 1)
                   /\ stmt_index' = stmt_index + 1
                   /\ UNCHANGED <<request, ended>>
    /\ UNCHANGED sql_file
    /\ UNCHANGED pageVars
    /\ UNCHANGED dbVars

SetVariable ==
    /\ Running
    /\ sql_file[stmt_index].kind = "SetVariable"
    /\ \E acquired \in BOOLEAN :
          LET stmt == sql_file[stmt_index]
              connection == take_connection(connection_opt, acquired)
              target == vars_and_name(stmt.variable)
          IN  IF ~stmt.bind THEN StreamFails(<<ERR_BIND>>, connection_opt)
              ELSE IF connection.err # Ok THEN StreamFails(connection.err, connection.conn)
              ELSE IF stmt.row = "Err" THEN StreamFails(<<ERR_FETCH>>, connection.conn)
              ELSE IF target.err # Ok THEN StreamFails(target.err, connection.conn)
              ELSE /\ connection_opt' = connection.conn
                   /\ request' = [request EXCEPT ![target.vars] =
                                     IF stmt.row = "Some" THEN @ \cup {"name"}
                                     ELSE @ \ {"name"}]
                   /\ stmt_index' = stmt_index + 1
                   /\ UNCHANGED <<yielded, ended>>
    /\ UNCHANGED sql_file
    /\ UNCHANGED pageVars
    /\ UNCHANGED dbVars

StaticSimpleSelect ==
    /\ Running
    /\ sql_file[stmt_index].kind = "StaticSimpleSelect"
    /\ yielded' = Append(yielded, DbItem("Row", Ok))
    /\ stmt_index' = stmt_index + 1
    /\ UNCHANGED <<sql_file, connection_opt, request, ended>>
    /\ UNCHANGED pageVars
    /\ UNCHANGED dbVars

ParseError ==
    /\ Running
    /\ sql_file[stmt_index].kind = "Error"
    /\ yielded' = Append(yielded, DbItem("Error", clone_anyhow_err(<<ERR_PARSE>>)))
    /\ stmt_index' = stmt_index + 1
    /\ UNCHANGED <<sql_file, connection_opt, request, ended>>
    /\ UNCHANGED pageVars
    /\ UNCHANGED dbVars

StreamNext ==
    \/ ExecuteStatement
    \/ SetVariable
    \/ StaticSimpleSelect
    \/ ParseError

StreamSpec == StreamInit /\ [][StreamNext]_vars

----------------------------------------------------------------------------
(* Database::init of src/src/webserver/database/mod.rs: the loop that     *)
(* connects to the database.  Whether an attempt succeeds is decided by   *)
(* the database; each attempt and each sleep returns.                     *)

\* retries = config.database_connection_retries, before the loop
DatabaseInit ==
    /\ PageInit
    /\ NoStream
    /\ database_connection_retries \in 0..MaxRetries
    /\ retries = database_connection_retries
    /\ outcomes = <<>>
    /\ init_pc = "connect"
    /\ db_connection = 0

\* connect_with returns: Ok(c) breaks the loop and init returns the pool
ConnectWith ==
    /\ init_pc = "connect"
    /\ \E ok \in BOOLEAN :
          /\ outcomes' = Append(outcomes, ok)
          /\ IF ok THEN /\ db_connection' = Len(outcomes) + 1
                        /\ init_pc' = "returned_ok"
                  ELSE /\ init_pc' = "failed"
                       /\ UNCHANGED db_connection
    /\ UNCHANGED <<database_connection_retries, retries>>
    /\ UNCHANGED pageVars
    /\ UNCHANGED streamVars

\* faulty variant: init gives up when one retry is left
RetryOrFail_early ==
    /\ init_pc = "failed"
    /\ IF retries <= 1 THEN /\ init_pc' = "returned_err"
                            /\ UNCHANGED retries
                      ELSE /\ retries' = retries - 1
                           /\ init_pc' = "sleep"
    /\ UNCHANGED <<database_connection_retries, outcomes, db_connection>>
    /\ UNCHANGED pageVars
    /\ UNCHANGED streamVars

\* the Err arm: return the error if no retry is left, else count the retry
RetryOrFail ==
    /\ init_pc = "failed"
    /\ IF retries = 0 THEN /\ init_pc' = "returned_err"
                           /\ UNCHANGED retries
                     ELSE /\ retries' = retries - 1
                          /\ init_pc' = "sleep"
    /\ UNCHANGED <<database_connection_retries, outcomes, db_connection>>
    /\ UNCHANGED pageVars
    /\ UNCHANGED streamVars

\* the sleep of 5 seconds is over: the loop starts again
Sleep ==
    /\ init_pc = "sleep"
    /\ init_pc' = "connect"
    /\ UNCHANGED <<database_connection_retries, retries, outcomes, db_connection>>
    /\ UNCHANGED pageVars
    /\ UNCHANGED streamVars

DatabaseNext ==
    \/ ConnectWith
    \/ RetryOrFail
    \/ Sleep

\* every attempt and every sleep returns, and the task goes on
DatabaseSpec == DatabaseInit /\ [][DatabaseNext]_vars /\ WF_vars(DatabaseNext)

----------------------------------------------------------------------------
(* Reading the writer *)

\* a call that rendered a segment (completely, or until its failure)
IsEmitted(e) == e.res # "noop"

Calls(slot, call) ==
    {i \in DOMAIN writer : writer[i].slot = slot /\ writer[i].call = call
                           /\ IsEmitted(writer[i])}

\* the segment renders on inner components
Inner == {i \in DOMAIN writer : writer[i].slot = "current" /\ IsEmitted(writer[i])}

InnerIds == {writer[i].id : i \in Inner}

StartOf(id) == {i \in Calls("current", "render_start") : writer[i].id = id}
ItemsOf(id) == {i \in Calls("current", "render_item") : writer[i].id = id}
EndOf(id) == {i \in Calls("current", "render_end") : writer[i].id = id}

Proj(e) == <<e.call, e.slot, e.name, e.data, e.row_index, e.res>>

\* what the calls from the i-th on rendered
RECURSIVE EmittedFrom(_)
EmittedFrom(i) ==
    IF i > Len(writer) THEN <<>>
    ELSE (IF IsEmitted(writer[i]) THEN <<Proj(writer[i])>> ELSE <<>>) \o EmittedFrom(i + 1)

\* what the last operation rendered, and the calls it made
Delta == EmittedFrom(last.pre.len + 1)
DeltaCalls == {i \in DOMAIN writer : i > last.pre.len}

----------------------------------------------------------------------------
(* C1: the shell's render_start is emitted at most once and before any     *)
(* inner component's render_start; once the page is closed, a shell that   *)
(* was started has exactly one render_end; nothing of an inner component   *)
(* is written after the shell's render_end; no later body row opens a      *)
(* second instance of the shell template.                                  *)
C1_ShellOpenedOnceClosedLast ==
    /\ Cardinality(Calls("shell", "render_start")) <= 1
    /\ \A i \in Calls("current", "render_start") :
          \E j \in Calls("shell", "render_start") : j < i
    /\ (page = "Closed" /\ Calls("shell", "render_start") # {})
          => Cardinality(Calls("shell", "render_end")) = 1
    /\ \A e \in Calls("shell", "render_end") : \A i \in Inner : i < e
    /\ \A i \in Inner : writer[i].name # SHELL_COMPONENT

RECURSIVE S1Items(_)
S1Items(n) ==
    IF n = 0 THEN <<>>
    ELSE S1Items(n - 1) \o
         << <<"render_item", "current", "a", ItemRow, n - 1, "ok">>,
            <<"render_item", "shell", "shell", Null, n - 1, "ok">> >>

S1Expected(n, closed) ==
    << <<"render_start", "shell", "shell", ShellRow, -1, "ok">>,
       <<"render_start", "current", "a", ComponentRow, -1, "ok">> >>
    \o S1Items(n)
    \o (IF closed
        THEN << <<"render_end", "current", "a", Null, -1, "ok">>,
                <<"render_end", "shell", "shell", Null, -1, "ok">> >>
        ELSE <<>>)

C3_SimplePage ==
    /\ scenario = "items" => EmittedFrom(1) = S1Expected(nsteps - 2, FALSE)
    /\ scenario = "closed" => EmittedFrom(1) = S1Expected(nsteps - 3, TRUE)

\* the simple page with two items, closed
C3_Witness == scenario = "closed" /\ nsteps = 5 /\ page = "Closed"

----------------------------------------------------------------------------
(* The last operation *)

Component(row) == get_object_str(row, "component")

NamesComponent(row) == Component(row) \notin {None, DYNAMIC_COMPONENT, "http_header"}

IsOpen(r) == r.local_vars.some

\* what closing the renderer r renders
Closing(r) ==
    IF IsOpen(r) THEN << <<"render_end", "current", r.name, Null, -1, "ok">> >> ELSE <<>>

\* what the shell renders between two rows
ShellItem(r) ==
    IF IsOpen(r) THEN << <<"render_item", "shell", r.name, Null, r.row_index, "ok">> >>
    ELSE <<>>

DeltaEmitted == {i \in DeltaCalls : IsEmitted(writer[i])}

(* C4: when the Header -> Body transition succeeds the first inner        *)
(* component is open: its render_start was emitted after the shell's,     *)
(* with the payload of the initiating row when that row is neither a      *)
(* shell nor a dynamic row and with null otherwise; an item row handled   *)
(* right after the transition renders one item of that component.         *)
C4_FirstComponentOpened ==
    /\ (last.op = "header_handle_row" /\ page = "Body") =>
          /\ IsOpen(current_component)
          /\ \E i \in StartOf(current_component.id) :
                /\ \E j \in Calls("shell", "render_start") : j < i
                /\ writer[i].data =
                       IF Component(Rows[last.row]) \in {SHELL_COMPONENT, DYNAMIC_COMPONENT}
                       THEN Null ELSE Rows[last.row]
    /\ (last.op = "handle_row" /\ nsteps = 2 /\ Rows[last.row] = ItemRow /\ nfaults = 0) =>
          \E i \in DeltaEmitted :
             /\ writer[i].slot = "current" /\ writer[i].call = "render_item"
             /\ writer[i].id = last.pre.current.id

(* C5: in the Body state, handle_row of a row naming a component N other  *)
(* than dynamic and http_header makes no render_item call; when it        *)
(* succeeds it has rendered the render_end of the current component (if   *)
(* it was open) and then the render_start of a new instance of N with the *)
(* row as properties, and that instance is the current component.         *)
C5_SwitchComponent ==
    (last.op = "handle_row" /\ NamesComponent(Rows[last.row])) =>
       LET row == Rows[last.row]
           old == last.pre.current
       IN  /\ \A i \in DeltaCalls : writer[i].call # "render_item"
           /\ writer[last.pre.len + 1].call = "render_end"
           /\ writer[last.pre.len + 1].id = old.id
           /\ ~IsOpen(old) => ~IsEmitted(writer[last.pre.len + 1])
           /\ last.err = Ok =>
                 /\ Delta = Closing(old) \o
                            << <<"render_start", "current", row.component, row, -1, "ok">> >>
                 /\ current_component.name = row.component
                 /\ current_component.id = next_id
                 /\ current_component.id # old.id
                 /\ writer[Len(writer)].id = current_component.id
                 /\ IsOpen(current_component)
                 /\ current_component.row_index = 0
                 /\ current_component.ctx = row
                 /\ shell_renderer = last.pre.shell

\* a row naming a component has replaced an open component
C5_Witness ==
    /\ last.op = "handle_row" /\ NamesComponent(Rows[last.row]) /\ last.err = Ok
    /\ IsOpen(last.pre.current)
    /\ last.pre.current.row_index > 0

C7_ShellItemAfterInnerItem ==
    \A i \in DOMAIN writer :
       /\ (writer[i].slot = "current" /\ writer[i].call = "render_item") =>
             IF writer[i].res = "fail"
             THEN i < Len(writer) =>
                     ~(writer[i + 1].slot = "shell" /\ writer[i + 1].call = "render_item")
             ELSE /\ i < Len(writer)
                  /\ writer[i + 1].slot = "shell"
                  /\ writer[i + 1].call = "render_item"
                  /\ writer[i + 1].data = Null
                  /\ nfaults = 0 => writer[i + 1].res = "ok"
       /\ (writer[i].slot = "shell" /\ writer[i].call = "render_item") =>
             /\ i > 1
             /\ writer[i - 1].slot = "current"
             /\ writer[i - 1].call = "render_item"
             /\ writer[i - 1].res # "fail"

\* an item rendered with the shell's item after it, then an item whose render failed
C7_Witness ==
    \E i, j \in Calls("current", "render_item") :
       /\ i < j
       /\ writer[i].res = "ok" /\ writer[i + 1].res = "ok"
       /\ writer[j].res = "fail"
       /\ j < Len(writer)

(* C8: a successful handle_error renders exactly: the render_end of the   *)
(* current component (if open), the render_start of a new error instance  *)
(* with null properties, one item carrying the query number, the          *)
(* description and the backtrace, the shell's item, the render_end of the *)
(* error instance; afterwards the renderer that was current is current    *)
(* again, closed, and recursion_depth and current_statement are as        *)
(* before.                                                                *)
C8_HandleError ==
    (last.op = "handle_error" /\ last.err = Ok) =>
       LET old == last.pre.current
           payload == [t |-> "object", query_number |-> last.pre.current_statement,
                       description |-> Head(last.arg), backtrace |-> Tail(last.arg)]
       IN  /\ Delta = Closing(old)
                      \o << <<"render_start", "current", "error", Null, -1, "ok">>,
                            <<"render_item", "current", "error", payload, 0, "ok">> >>
                      \o ShellItem(last.pre.shell)
                      \o << <<"render_end", "current", "error", Null, -1, "ok">> >>
           /\ \A i \in DeltaEmitted :
                 (writer[i].slot = "current" /\ writer[i].call # "render_end")
                    => writer[i].id = next_id
           /\ writer[Len(writer)].id = next_id
           /\ old.id # next_id
           /\ current_component = [old EXCEPT !.local_vars = NoLocalVars]
           /\ recursion_depth = last.pre.recursion_depth
           /\ current_statement = last.pre.current_statement

\* an error handled while a component with an item is open, after a finished query
C8_Witness ==
    /\ last.op = "handle_error" /\ last.err = Ok
    /\ IsOpen(last.pre.current) /\ last.pre.current.row_index > 0
    /\ last.pre.current_statement = 2

C10_HeaderRowInBody ==
    /\ (last.op = "handle_row" /\ Rows[last.row] = HeaderRow) =>
          /\ last.err = <<ERR_HTTP_HEADER>>
          /\ Len(writer) = last.pre.len
          /\ current_component = last.pre.current
          /\ shell_renderer = last.pre.shell
          /\ recursion_depth = last.pre.recursion_depth
          /\ current_statement = last.pre.current_statement
          /\ response = last.pre.response
          /\ page = "Body"
    /\ (last.op = "handle_row" /\ Rows[last.row] = DynamicHeaderRow) =>
          /\ last.err # Ok
          /\ recursion_depth = last.pre.recursion_depth
          /\ current_statement = last.pre.current_statement
          /\ response = last.pre.response
          /\ current_component.id = last.pre.current.id
          /\ IsOpen(last.pre.current) /\ (\A i \in DeltaEmitted : writer[i].res = "ok") =>
                IsOpen(current_component)
          /\ (\A i \in DeltaEmitted : writer[i].res = "ok") =>
                /\ last.err = <<CTX_DYNAMIC, ERR_HTTP_HEADER>>
                /\ Len(writer) = last.pre.len + 2
                /\ writer[last.pre.len + 1].call = "render_item"
                /\ writer[last.pre.len + 1].data = ItemRow
                /\ writer[last.pre.len + 2].slot = "shell"
                /\ current_component.row_index =
                      last.pre.current.row_index + (IF IsOpen(last.pre.current) THEN 1 ELSE 0)

\* a http_header row inside a dynamic row, while a component is open
C10_Witness ==
    /\ last.op = "handle_row" /\ Rows[last.row] = DynamicHeaderRow
    /\ IsOpen(last.pre.current)
    /\ last.err = <<CTX_DYNAMIC, ERR_HTTP_HEADER>>

(* C11: the page starts in the Header state.  A http_header row whose     *)
(* fields are all strings leaves it there, inserts one response header    *)
(* per field, in order, and makes no render call; a http_header row with  *)
(* a field that is not a string returns the error and the page never      *)
(* reaches the Body.  Only a row that is not a http_header row, fed in    *)
(* the Header state, leads to the Body; from the Body no operation leads  *)
(* back to the Header or changes the response headers.                    *)
C11_HeaderThenBody ==
    /\ (nsteps = 0) => page = "Header"
    /\ (last.op = "header_handle_row" /\ Component(Rows[last.row]) = "http_header") =>
          /\ last.pre.page = "Header"
          /\ Len(writer) = 0
          /\ page # "Body"
          /\ (\A k \in DOMAIN Rows[last.row].fields : Rows[last.row].fields[k].is_str) =>
                /\ page = "Header" /\ last.err = Ok
                /\ Len(response) = Len(last.pre.response) + Len(Rows[last.row].fields)
                /\ \A k \in DOMAIN Rows[last.row].fields :
                      response[Len(last.pre.response) + k] =
                          <<Rows[last.row].fields[k].name, Rows[last.row].fields[k].val>>
                /\ \A k \in DOMAIN last.pre.response : response[k] = last.pre.response[k]
          /\ (\E k \in DOMAIN Rows[last.row].fields : ~Rows[last.row].fields[k].is_str) =>
                /\ page = "Aborted" /\ last.err = <<ERR_HEADER_VALUE>>
    /\ (last.pre.page = "Header" /\ page = "Body") =>
          /\ last.op = "header_handle_row"
          /\ Component(Rows[last.row]) # "http_header"
          /\ last.err = Ok
    /\ (nsteps > 0 /\ last.pre.page = "Body") =>
          /\ page \in {"Body", "Closed"}
          /\ response = last.pre.response
    /\ (nsteps > 0) => last.pre.page \in {"Header", "Body"}

\* two headers were added before the body was entered, and a row was handled in the body
C11_Witness ==
    /\ page = "Body" /\ last.pre.page = "Body" /\ last.op = "handle_row"
    /\ response = << <<"X-Test", "v">>, <<"X-Test", "v">> >>

\* handle_row called on the rows from the i-th on, one call after the other,
\* until one of them returns an error
RECURSIVE HandleInOrder(_, _, _)
HandleInOrder(m, rows, i) ==
    IF i > Len(rows) THEN [m |-> m, err |-> Ok]
    ELSE LET res == handle_row(m, rows[i])
         IN  IF res.err # Ok THEN res ELSE HandleInOrder(res.m, rows, i + 1)

(* C12: in the Body state, handle_row of a dynamic row whose properties   *)
(* denote the rows r1..rn writes what handle_row of r1, ..., rn in that   *)
(* order writes and leaves the renderer as they leave it (with the same   *)
(* segment renders failing); when the call of ri returns an error, the    *)
(* rows after ri are not handled and that error is returned, under the    *)
(* context message of the dynamic component.                              *)
C12_DynamicAsSequence ==
    [][ (/\ page = "Body"
         /\ last'.op = "handle_row"
         /\ Component(Rows[last'.row]) = DYNAMIC_COMPONENT
         /\ extract_dynamic_properties(Rows[last'.row]).err = Ok) =>
           \E F \in FaultSets :
              LET seq == HandleInOrder(Machine(F),
                                       extract_dynamic_properties(Rows[last'.row]).rows, 1)
              IN  /\ F \subseteq 1..seq.m.n
                  /\ writer' = seq.m.writer
                  /\ current_component' = seq.m.current
                  /\ shell_renderer' = seq.m.shell
                  /\ next_id' = seq.m.next_id
                  /\ recursion_depth' = recursion_depth
                  /\ current_statement' = current_statement
                  /\ last'.err = IF seq.err = Ok THEN Ok ELSE <<CTX_DYNAMIC>> \o seq.err
      ]_vars

\* the second of three synthetic rows failed after the first rendered an item
C12_Witness ==
    /\ last.op = "handle_row" /\ Rows[last.row] = DynamicMissingRow
    /\ IsOpen(last.pre.current)
    /\ last.err = <<CTX_DYNAMIC, ERR_NOT_FOUND>>
    /\ Len(Delta) = 3

(* C13: recursion_depth is at most 256 in every state; no row inside a    *)
(* dynamic row is handled at a depth above 256, the dynamic row around it *)
(* returns the maximum-recursion error instead; that error is a value     *)
(* returned to the caller, and the page stays in the Body state.          *)
C13_RecursionDepthBounded ==
    /\ recursion_depth <= MAX_RECURSION_DEPTH
    /\ max_depth <= MAX_RECURSION_DEPTH
    /\ (last.op = "handle_inner_row") => last.pre.recursion_depth <= MAX_RECURSION_DEPTH
    /\ (dynamic_call.err # Ok /\ dynamic_call.err[Len(dynamic_call.err)] = ERR_MAX_RECURSION) =>
          page = "Body"

(* C14: when the first row that is not a http_header row is a dynamic     *)
(* row, the body is entered only if its properties denote a single row    *)
(* that has no component or names the shell, and the shell is then        *)
(* started with that row; properties that denote several rows, or a row   *)
(* naming another component, make the step fail: no Body state, nothing   *)
(* rendered.                                                              *)
C14_TopLevelDynamic ==
    (last.op = "header_handle_row" /\ Component(Rows[last.row]) = DYNAMIC_COMPONENT) =>
       LET props == extract_dynamic_properties(Rows[last.row])
           single == /\ props.err = Ok
                     /\ Len(props.rows) = 1
                     /\ Component(props.rows[1]) \in {None, SHELL_COMPONENT}
       IN  /\ (page = "Body") =>
                 /\ single
                 /\ writer[1].call = "render_start" /\ writer[1].slot = "shell"
                 /\ writer[1].data = props.rows[1]
           /\ ~single =>
                 /\ page = "Aborted"
                 /\ last.err # Ok
                 /\ Len(writer) = 0

\* the segment a render call renders
Segment(call) ==
    CASE call = "render_start" -> "before_list"
      [] call = "render_item" -> "list_content"
      [] OTHER -> "after_list"

\* the segment renders of the instance id, oldest first
RendersOf(id) == {i \in DOMAIN writer : writer[i].id = id /\ IsEmitted(writer[i])}

\* the last segment render of the same instance that completed before the
\* i-th call (0: none)
PrevRender(i) ==
    LET before == {j \in RendersOf(writer[i].id) : j < i /\ writer[j].res = "ok"}
    IN  IF before = {} THEN 0 ELSE CHOOSE j \in before : \A k \in before : k <= j

\* the last render_start of the same instance before the i-th call (0: none)
StartBefore(i) ==
    LET before == {j \in RendersOf(writer[i].id) : j < i /\ writer[j].call = "render_start"}
    IN  IF before = {} THEN 0 ELSE CHOOSE j \in before : \A k \in before : k <= j

(* C15: the segments of one renderer share one environment.  The data     *)
(* given to render_start is the data context of every later render_item   *)
(* and of render_end; the block-local variables a completed segment       *)
(* render leaves are the ones the next segment render starts from, in the *)
(* order before_list, list_content for item 0, 1, ..., after_list, so     *)
(* that after_list sees what every item render stored; after a            *)
(* render_start or a render_item that rendered its segment the renderer   *)
(* holds block-local variables.                                           *)
C15_SharedEnvironment ==
    /\ \A i \in RendersOf(current_component.id) :
          writer[i].call # "render_start" =>
             /\ StartBefore(i) # 0
             /\ writer[i].ctx = writer[StartBefore(i)].data
             /\ PrevRender(i) # 0
             /\ writer[PrevRender(i)].call # "render_end"
             /\ writer[i].vars = segment_render(Segment(writer[PrevRender(i)].call),
                                                writer[PrevRender(i)].vars)
             /\ (writer[i].call = "render_item" /\ writer[PrevRender(i)].call = "render_item") =>
                   writer[i].row_index = writer[PrevRender(i)].row_index + 1
             /\ (writer[i].call = "render_item" /\ writer[PrevRender(i)].call = "render_start") =>
                   writer[i].row_index = 0
    /\ \A i \in RendersOf(current_component.id) :
          writer[i].call = "render_start" => writer[i].vars = <<>> /\ writer[i].ctx = writer[i].data
    /\ (/\ last.op \in {"render_start", "render_item"}
        /\ Len(writer) > 0
        /\ writer[Len(writer)].res = "ok") =>
          /\ IsOpen(current_component)
          /\ current_component.local_vars.v =
                 segment_render(Segment(writer[Len(writer)].call), writer[Len(writer)].vars)
          /\ current_component.ctx = writer[Len(writer)].ctx

\* render_start, two items, render_end: after_list sees what both items stored
C15_Witness ==
    /\ last.op = "render_end" /\ last.err = Ok
    /\ Len(writer) = 4
    /\ writer[1].data = ComponentRow
    /\ writer[4].ctx = ComponentRow
    /\ writer[4].vars = <<"before_list", "list_content", "list_content">>

\* what the render calls of w rendered
Emitted(w) == SelectSeq(w, IsEmitted)

(* C16: render_end is idempotent.  In every state of a renderer, a second *)
(* render_end right after a first one renders nothing, returns success    *)
(* and leaves the renderer as the first call left it; render_end renders  *)
(* after_list only if block-local variables are held, and leaves none     *)
(* held.                                                                  *)
C16_RenderEndIdempotent ==
    /\ \A F \in SUBSET {1, 2} :
          LET once == render_end(Machine(F), "current")
              twice == render_end(once.m, "current")
          IN  /\ Emitted(twice.m.writer) = Emitted(once.m.writer)
              /\ twice.m.current = once.m.current
              /\ twice.err = Ok
              /\ ~IsOpen(once.m.current)
              /\ (Emitted(once.m.writer) # Emitted(writer)) <=> IsOpen(current_component)
    /\ (last.op = "render_end") =>
          /\ ~IsOpen(current_component)
          /\ (DeltaEmitted # {}) <=> IsOpen(last.pre.current)
          /\ ~IsOpen(last.pre.current) => (last.err = Ok /\ current_component = last.pre.current)

\* render_end called twice in a row on a renderer that was open
C16_Witness ==
    /\ last.op = "render_end"
    /\ Len(writer) >= 2
    /\ writer[Len(writer)].call = "render_end" /\ writer[Len(writer)].res = "noop"
    /\ writer[Len(writer) - 1].call = "render_end" /\ writer[Len(writer) - 1].res = "ok"

(* C17: a render_item call on a renderer that holds no block-local        *)
(* variables (before its render_start, after its render_end) renders      *)
(* nothing, returns success and leaves the renderer unchanged.            *)
C17_RenderItemWhenClosed ==
    (last.op = "render_item" /\ ~IsOpen(last.pre.current)) =>
       /\ DeltaEmitted = {}
       /\ last.err = Ok
       /\ current_component = last.pre.current

\* a render_item call after the render_end that followed an item
C17_Witness ==
    /\ last.op = "render_item" /\ ~IsOpen(last.pre.current)
    /\ last.pre.current.row_index = 1
    /\ \E i \in DOMAIN writer : writer[i].call = "render_end" /\ writer[i].res = "ok"

\* the items describing an error that the last operation rendered
DeltaErrorItems ==
    {i \in DeltaEmitted : /\ writer[i].slot = "current" /\ writer[i].name = "error"
                          /\ writer[i].call = "render_item"
                          /\ "query_number" \in DOMAIN writer[i].data}

(* C18: finish_query increments current_statement by one and changes      *)
(* nothing else: it renders nothing and leaves the current component, the *)
(* shell and recursion_depth as they were.  current_statement is 1 when   *)
(* the body is entered, so that the query_number of every rendered error  *)
(* item is 1 plus the number of finish_query calls made before it.        *)
C18_FinishQuery ==
    /\ (last.op = "finish_query") =>
          /\ last.err = Ok
          /\ current_statement = last.pre.current_statement + 1
          /\ Len(writer) = last.pre.len
          /\ current_component = last.pre.current
          /\ shell_renderer = last.pre.shell
          /\ recursion_depth = last.pre.recursion_depth
          /\ response = last.pre.response
          /\ page = "Body"
    /\ (last.op = "header_handle_row" /\ page = "Body") => current_statement = 1
    /\ (page \in {"Body", "Closed"}) => current_statement = 1 + finished
    /\ \A i \in DeltaErrorItems : writer[i].data.query_number = 1 + finished

\* an error rendered after two statements have finished
C18_Witness ==
    /\ last.op = "handle_error" /\ last.err = Ok
    /\ finished = 2
    /\ \E i \in DeltaErrorItems : writer[i].data.query_number = 3

\* the last render call before the last operation closed an error component
\* that handle_error then replaced by the component it had saved
AfterHandleError ==
    /\ last.pre.len > 0
    /\ writer[last.pre.len].call = "render_end"
    /\ writer[last.pre.len].name = "error"
    /\ writer[last.pre.len].res = "ok"
    /\ writer[last.pre.len].id # last.pre.current.id
    /\ ~IsOpen(last.pre.current)

(* C20: after handle_error has returned, the row handled next (without    *)
(* component, or naming the component that was active before the error,   *)
(* or another one) makes no render_item call on the restored, closed      *)
(* renderer: it opens a component (render_start) before anything is       *)
(* rendered in it, and it does render something for the inner component.  *)
C20_FreshOpenAfterError ==
    (/\ last.op = "handle_row"
     /\ AfterHandleError
     /\ Component(Rows[last.row]) \notin {DYNAMIC_COMPONENT, "http_header"}
     /\ last.err = Ok) =>
       /\ \A i \in DeltaCalls :
             (writer[i].slot = "current" /\ writer[i].call = "render_item") =>
                writer[i].id # last.pre.current.id
       /\ \E i \in DeltaEmitted :
             /\ writer[i].slot = "current" /\ writer[i].call = "render_start"
             /\ \A j \in DeltaEmitted : writer[j].slot = "current" => i <= j

\* the number of FinishedQuery items yielded before the i-th item
FinishedBefore(i) ==
    Cardinality({j \in 1..(i - 1) : yielded[j].item = "FinishedQuery"})

(* C19: the row stream yields its items in statement order, and for each  *)
(* statement the for loop has been through (an executed statement, a      *)
(* static simple select, a set-variable statement, a parse error) exactly *)
(* one FinishedQuery, after the other items of that statement: the number *)
(* of FinishedQuery items before an item is the 0-based index of its      *)
(* statement.                                                             *)
C19_StatementBoundaries ==
    /\ \A i, j \in DOMAIN yielded : i < j => yielded[i].statement <= yielded[j].statement
    /\ \A k \in 1..(stmt_index - 1) :
          LET of_k == {i \in DOMAIN yielded : yielded[i].statement = k}
              finished_k == {i \in of_k : yielded[i].item = "FinishedQuery"}
          IN  /\ Cardinality(finished_k) = 1
              /\ \A f \in finished_k, i \in of_k : i <= f
    /\ \A i \in DOMAIN yielded : FinishedBefore(i) = yielded[i].statement - 1

----------------------------------------------------------------------------
\* the error chain holds the message
HasMessage(err, msg) == \E k \in DOMAIN err : err[k] = msg

(* C21: recursion_depth has the same value after render_dynamic returns   *)
(* as before it was called, at every nesting level and whether it         *)
(* returns success or an error (a failing synthetic row, properties of a  *)
(* bad shape, the depth guard): a handle_row call on a dynamic row made   *)
(* at any depth leaves recursion_depth as it found it, and                *)
(* recursion_depth is 0 whenever no handle_row call is in progress.       *)
C21_RecursionDepthRestored ==
    [][/\ (/\ nsteps' = nsteps + 1
           /\ last'.op = "handle_inner_row"
           /\ Component(Rows[last'.row]) = DYNAMIC_COMPONENT) =>
              recursion_depth' = recursion_depth
       /\ (dynamic_call'.pc = "idle") => recursion_depth' = 0]_vars

\* a dynamic row met at the greatest depth the guard lets through returned
\* the error of the guard, raised for the dynamic row inside it, after a
\* first row inside it was rendered
C21_Witness ==
    /\ last.op = "handle_inner_row"
    /\ Rows[last.row] = DynamicNestedRow
    /\ last.pre.recursion_depth = MAX_RECURSION_DEPTH
    /\ HasMessage(last.err, ERR_MAX_RECURSION)
    /\ recursion_depth = MAX_RECURSION_DEPTH
    /\ max_depth = MAX_RECURSION_DEPTH + 1
    /\ DeltaEmitted # {}

\* the render_end calls the last operation made on the renderer r
EndCalls(slot, r) ==
    {i \in DeltaCalls : writer[i].slot = slot /\ writer[i].call = "render_end"
                        /\ writer[i].id = r.id}

(* C22: close() always attempts render_end on the current inner component *)
(* and then render_end on the shell, in that order, also when the first   *)
(* fails; a failure is only logged, it causes no further segment to be    *)
(* written: close() renders nothing but these two closing segments; and   *)
(* close() returns the writer in every case.                              *)
C22_CloseEndsBoth ==
    (last.op = "close") =>
       /\ page = "Closed"
       /\ \E i \in EndCalls("current", last.pre.current) :
             \E j \in EndCalls("shell", last.pre.shell) :
                /\ i < j
                /\ \A k \in DeltaCalls : i <= k
                /\ \A k \in DeltaEmitted : k \in {i, j}

\* the number of completed list_content renders of the instance id among
\* the calls before the i-th
ItemsDone(id, i) ==
    Cardinality({j \in 1..(i - 1) : /\ writer[j].id = id /\ writer[j].call = "render_item"
                                    /\ writer[j].res = "ok"})

(* C23: for each SplitTemplateRenderer instance, inner component or       *)
(* shell, the row_index values given to its successive list_content       *)
(* renders are 0, 1, 2, ... without gap or repeat: the row_index of a     *)
(* renderer is 0 after render_start, is incremented by one by each        *)
(* render_item that rendered its segment, and is left unchanged by a      *)
(* render_item that rendered nothing and by render_end, so that it is     *)
(* always the number of list_content renders the instance has completed.  *)
C23_RowIndexSequence ==
    /\ \A i \in DOMAIN writer :
          (writer[i].call = "render_item") => writer[i].row_index = ItemsDone(writer[i].id, i)
    /\ \A i, j \in DOMAIN writer :
          (/\ i < j /\ writer[i].id = writer[j].id
           /\ writer[i].call = "render_item" /\ IsEmitted(writer[i])
           /\ writer[j].call = "render_item" /\ IsEmitted(writer[j])) =>
              writer[i].row_index < writer[j].row_index
    /\ current_component.row_index = ItemsDone(current_component.id, Len(writer) + 1)
    /\ shell_renderer.row_index = ItemsDone(shell_renderer.id, Len(writer) + 1)

\* the shell rendered its third item, after two items of one inner
\* component and one of another, and a render_item call rendered nothing
C23_Witness ==
    /\ \E i \in Calls("shell", "render_item") : writer[i].row_index = 2
    /\ \E i, j \in Calls("current", "render_item") :
          /\ writer[i].row_index = 1 /\ writer[j].row_index = 0 /\ writer[j].id # writer[i].id
    /\ \E i \in DOMAIN writer : writer[i].call = "render_item" /\ writer[i].res = "noop"
    /\ \E i \in DOMAIN writer : writer[i].call = "render_end" /\ writer[i].res = "ok"

\* the last operation started the shell: RenderContext::new went on to
\* construct the first inner component
ShellStarted ==
    \E i \in DeltaCalls : /\ writer[i].slot = "shell" /\ writer[i].call = "render_start"
                          /\ writer[i].res = "ok"

(* C24: when the row that starts the body is a shell row or a top-level   *)
(* dynamic row, whatever the number of sub-rows its properties expand to  *)
(* (zero included), the first inner component constructed is the default  *)
(* component; a component other than default is constructed first only    *)
(* when the initiating row itself names a component that is neither       *)
(* shell nor dynamic.                                                     *)
C24_FirstComponentDefault ==
    (last.op = "header_handle_row" /\ ShellStarted) =>
       /\ Component(Rows[last.row]) \in {SHELL_COMPONENT, DYNAMIC_COMPONENT} =>
             /\ page = "Body"
             /\ name(current_component) = DEFAULT_COMPONENT
       /\ (page = "Body" /\ name(current_component) # DEFAULT_COMPONENT) =>
             /\ Component(Rows[last.row]) \notin {None, SHELL_COMPONENT, DYNAMIC_COMPONENT}
             /\ name(current_component) = Component(Rows[last.row])

\* the render_start and render_item calls whose segment render failed
FailedRenders ==
    {i \in DOMAIN writer : writer[i].res = "fail"
                           /\ writer[i].call \in {"render_start", "render_item"}}

(* C25: when the list_content render of a render_item call fails, the     *)
(* error is returned to the caller and the renderer is left holding no    *)
(* block-local variables, its row_index not incremented: every later      *)
(* render_item and render_end on that instance renders nothing, so its    *)
(* after_list is never written; likewise a failing render_start leaves a  *)
(* new renderer holding no block-local variables.                         *)
C25_FailedRenderCloses ==
    /\ \A i \in FailedRenders :
          /\ \A j \in DOMAIN writer :
                (j > i /\ writer[j].id = writer[i].id) =>
                   /\ writer[j].call \in {"render_item", "render_end"}
                   /\ writer[j].res = "noop"
          /\ \A r \in {current_component, shell_renderer} :
                (r.id = writer[i].id) =>
                   /\ ~IsOpen(r)
                   /\ r.row_index = IF writer[i].call = "render_item"
                                     THEN writer[i].row_index ELSE 0
    /\ (/\ last.op \in {"handle_row", "header_handle_row"}
        /\ \E i \in FailedRenders : i \in DeltaCalls) => HasMessage(last.err, ERR_RENDER)

\* after its second list_content render failed, the component was given
\* another item and was closed with the page; both calls rendered nothing
C25_Witness ==
    /\ page = "Closed"
    /\ \E i \in FailedRenders :
          /\ writer[i].call = "render_item" /\ writer[i].slot = "current"
          /\ writer[i].row_index = 1
          /\ \E j, k \in DOMAIN writer :
                /\ i < j /\ j < k
                /\ writer[j].id = writer[i].id /\ writer[j].call = "render_item"
                /\ writer[k].id = writer[i].id /\ writer[k].call = "render_end"

\* the items the k-th statement of the file yielded
ItemsOfStatement(k) == {i \in DOMAIN yielded : yielded[i].statement = k}

\* the place of the first error among the results of a statement (0: none)
FirstErr(results) ==
    LET errs == {p \in DOMAIN results : results[p] = "Err"}
    IN  IF errs = {} THEN 0 ELSE CHOOSE p \in errs : \A q \in errs : p <= q

\* the statement needs a connection, which it would use unless binding its
\* parameters fails
UsesConnection(stmt) == stmt.kind \in {"Statement", "SetVariable"} /\ stmt.bind

\* the statement fails in a way that leaves the try_stream block
LeavesStream(stmt) ==
    \/ stmt.kind \in {"Statement", "SetVariable"} /\ ~stmt.bind
    \/ stmt.kind = "SetVariable" /\ stmt.row = "Err"
    \/ stmt.kind = "SetVariable" /\ stmt.variable \notin {"Get", "GetOrPost", "Post"}

(* C26: in stream_query_results an error result of an executing           *)
(* statement is yielded as one Error item, the remaining results of that  *)
(* statement are skipped and the stream goes on with the next statement   *)
(* of the file; a failure to bind parameters, to acquire a connection or  *)
(* to run or store a set-variable statement is yielded as one Error item  *)
(* that is the last item of the stream: no later statement is executed.   *)
C26_StreamErrors ==
    /\ \A i \in DOMAIN yielded : yielded[i].statement <= stmt_index
    /\ \A k \in 1..(stmt_index - 1) :
          /\ ~LeavesStream(sql_file[k])
          /\ UsesConnection(sql_file[k]) => connection_opt
          /\ sql_file[k].kind = "Statement" =>
                LET results == sql_file[k].results
                    p == FirstErr(results)
                    errors == {i \in ItemsOfStatement(k) : yielded[i].item = "Error"}
                IN  /\ Cardinality(ItemsOfStatement(k)) = IF p = 0 THEN Len(results) ELSE p
                    /\ Cardinality(errors) = IF p = 0 THEN 0 ELSE 1
                    /\ \A e \in errors : \A i \in ItemsOfStatement(k) : i <= e
    /\ ~ended => ItemsOfStatement(stmt_index) = {}
    /\ ended =>
          /\ stmt_index <= Len(sql_file)
          /\ ItemsOfStatement(stmt_index) = {Len(yielded)}
          /\ yielded[Len(yielded)].item = "Error"
          /\ \/ LeavesStream(sql_file[stmt_index])
             \/ /\ UsesConnection(sql_file[stmt_index])
                /\ ~connection_opt
                /\ yielded[Len(yielded)].err = <<ERR_ACQUIRE>>

\* the first statement yielded an error before its other results, the
\* second statement was executed after it, and the stream ended on the
\* third statement, whose parameters could not be bound
C26_Witness ==
    /\ ended
    /\ stmt_index = 3
    /\ sql_file[1].kind = "Statement" /\ sql_file[1].bind
    /\ sql_file[1].results = <<"Err", "Right", "Left">>
    /\ sql_file[2].kind = "Statement" /\ sql_file[2].bind
    /\ sql_file[2].results = <<"Right", "Left">>
    /\ Len(yielded) = 4
    /\ yielded[1].item = "Error" /\ yielded[2].item = "Row"
    /\ yielded[3].item = "FinishedQuery"
    /\ yielded[4].err = <<ERR_BIND>>

\* Database::init returned
Returned == init_pc \in {"returned_ok", "returned_err"}

\* the number of connection attempts that failed
Failures == Cardinality({k \in DOMAIN outcomes : ~outcomes[k]})

\* the attempts made so far, the retries left and the result of init agree
C27_Attempts ==
    /\ Len(outcomes) <= database_connection_retries + 1
    /\ retries >= 0
    /\ retries = database_connection_retries
                    - (IF init_pc \in {"failed", "returned_err"} THEN Failures - 1
                       ELSE Failures)
    /\ \A k \in DOMAIN outcomes : outcomes[k] => k = Len(outcomes)
    /\ (init_pc = "returned_ok") <=>
          (outcomes # <<>> /\ outcomes[Len(outcomes)])
    /\ (init_pc = "returned_ok") => db_connection = Len(outcomes)
    /\ (init_pc # "returned_ok") => db_connection = 0
    /\ (init_pc = "returned_err") <=>
          (Failures = database_connection_retries + 1 /\ retries = 0 /\ init_pc # "failed")

(* C27: Database::init makes at most database_connection_retries + 1      *)
(* connection attempts and always terminates; it returns the pool of the  *)
(* first successful attempt without attempting again, and returns an      *)
(* error exactly when the first database_connection_retries + 1 attempts  *)
(* all fail; the retry counter never goes below 0.                        *)
C27_InitRetries == []C27_Attempts /\ <>Returned

\* init returned an error after its last retry, and no attempt is left
C27_Witness ==
    /\ init_pc = "returned_err"
    /\ database_connection_retries = 2
    /\ Len(outcomes) = 3
    /\ retries = 0

====
